---- MODULE Spec2Model ----
(***************************************************************************)
(* Model of src/src/medical/dicom_converter.py: the anisotropic diffusion  *)
(* solver perona_malik_gpu, the chunk reducer compute_chunk_minmax and the *)
(* driver convert_dicom_series / main around them.                         *)
(*                                                                         *)
(* Numbers.  A voxel value is an integer count of 1/Scale units (a fixed   *)
(* point stand-in for float32): every product and quotient is rounded to   *)
(* the nearest unit, ties to even, as a floating-point operation rounds    *)
(* to the nearest representable value.  Addition and subtraction are       *)
(* exact.  cp.exp is a truncated series (see ExpNeg).                      *)
(*                                                                         *)
(* Arrays.  A 3D array is a function z -> y -> x -> value over 0-based     *)
(* index intervals, addressed (z, y, x) as in the source.                  *)
(***************************************************************************)
EXTENDS Integers, Sequences, FiniteSets, TLC

VARIABLES
    pc,                   \* position of the running call
    HAS_CUPY,             \* module global set at import (lines 21-27)
    volume,               \* the `volume` argument / local: a 3D array
    chunk_size,           \* the chunk edge argument
    chunk_minmax,         \* result of compute_chunk_minmax, <<>> before
    iterations,           \* perona_malik_gpu / smoothing_iterations argument
    K,                    \* perona_malik_gpu arguments
    lambda_param,
    diffusion_type,
    gpu,                  \* the two device buffers, by name "a" and "b"
    vol_gpu,              \* which buffer the name vol_gpu is bound to
    output_gpu,           \* which buffer the name output_gpu is bound to
    iteration,            \* passes of the loop of line 236 completed
    update,               \* the temporary center + lambda_param * divergence
    pending,              \* voxels of output_gpu[:] = ... not yet stored
    result,               \* value returned by perona_malik_gpu, <<>> before
    apply_smoothing,      \* convert_dicom_series arguments
    anonymize,
    input_dir,            \* what the input directory holds
    global_range,         \* <<global_min, global_max>> of lines 407-420
    out_dir,              \* the output directory: [exists, files]
    metadata              \* the dict dumped to metadata.json, <<>> before

vars == <<pc, HAS_CUPY, volume, chunk_size, chunk_minmax, iterations, K,
          lambda_param, diffusion_type, gpu, vol_gpu, output_gpu, iteration,
          update, pending, result, apply_smoothing, anonymize, input_dir,
          global_range, out_dir, metadata>>

solverVars == <<gpu, vol_gpu, output_gpu, iteration, update, pending>>
driverVars == <<apply_smoothing, anonymize, input_dir, global_range, out_dir, metadata>>

(***************************************************************************)
(* Bounds of the model                                                     *)
(***************************************************************************)
\* fixed-point units per 1.0
Scale == 100
\* largest iteration count drawn for a direct perona_malik_gpu call
MaxIterations == 3
\* chunk-geometry inputs are up to this many whole chunks deep (slice axis)
MaxChunksDeep == 1
\* the driver's runs are followed into compute_chunk_minmax for chunk edges up
\* to this one (a cube of edge 256 has 2^24 voxels to scan)
MaxReduceEdge == 32

(***************************************************************************)
(* Program constants                                                       *)
(***************************************************************************)
\* lines 383 and 552: chunk_size % 16
ChunkMultiple == 16
\* lines 385 and 556: chunk_size < 16 or chunk_size > 256
MinChunkSize == 16
MaxChunkSize == 256

(***************************************************************************)
(* Arithmetic                                                              *)
(***************************************************************************)
Abs(n) == IF n < 0 THEN 0 - n ELSE n

\* n / d rounded to the nearest integer, ties to even; d # 0
RoundDiv(n, d) ==
    LET nn == IF d < 0 THEN 0 - n ELSE n
        dd == Abs(d)
        q  == nn \div dd
        r  == nn % dd
    IN  IF 2 * r < dd THEN q
        ELSE IF 2 * r > dd THEN q + 1
        ELSE IF q % 2 = 0 THEN q ELSE q + 1

FxMul(a, b) == RoundDiv(a * b, Scale)
FxDiv(a, b) == RoundDiv(a * Scale, b)
\* the fixed-point value of the literal num/den
Fx(num, den) == RoundDiv(num * Scale, den)

\* np.min and np.max over the values of a slice (lines 357-358)
SetMin(S) == CHOOSE m \in S : \A e \in S : m <= e
\* mutant: np.min written twice
SetMaxAsMin(S) == SetMin(S)
SetMax(S) == 0 - SetMin({0 - e : e \in S})

(***************************************************************************)
(* Arrays                                                                  *)
(***************************************************************************)
Depth(a)  == Cardinality(DOMAIN a)
Height(a) == Cardinality(DOMAIN a[0])
Width(a)  == Cardinality(DOMAIN a[0][0])

Array3(d, h, w, V(_, _, _)) ==
    [z \in 0..(d - 1) |-> [y \in 0..(h - 1) |-> [x \in 0..(w - 1) |-> V(z, y, x)]]]

Shape(a) == << Depth(a), Height(a), Width(a) >>

Coords(s) == (0..(s[1] - 1)) \X (0..(s[2] - 1)) \X (0..(s[3] - 1))

IsConstant(a) == \A c \in Coords(Shape(a)) : a[c[1]][c[2]][c[3]] = a[0][0][0]

(***************************************************************************)
(* perona_malik_gpu, lines 211-299: one iteration as array operators       *)
(***************************************************************************)
\* cp.pad(a, 1, mode='edge'), line 239: each axis in turn gets a copy of its
\* first plane in front and a copy of its last plane behind.
\* mutant: the halo wraps around, the last plane in front and the first behind
PadAxis0Wrap(a) ==
    LET n == Cardinality(DOMAIN a)
    IN  [i \in 0..(n + 1) |-> IF i = 0 THEN a[n - 1] ELSE IF i = n + 1 THEN a[0] ELSE a[i - 1]]
PadAxis0(a) ==
    LET n == Cardinality(DOMAIN a)
    IN  [i \in 0..(n + 1) |-> IF i = 0 THEN a[0] ELSE IF i = n + 1 THEN a[n - 1] ELSE a[i - 1]]

PadEdge(a) ==
    LET pz == PadAxis0(a)
        py == [z \in DOMAIN pz |-> PadAxis0(pz[z])]
    IN  [z \in DOMAIN py |-> [y \in DOMAIN py[z] |-> PadAxis0(py[z][y])]]

\* the six shifted views of lines 242-247, read at voxel (z, y, x)
North(padded, z, y, x) == padded[z][y + 1][x + 1]
South(padded, z, y, x) == padded[z + 2][y + 1][x + 1]
West(padded, z, y, x)  == padded[z + 1][y][x + 1]
East(padded, z, y, x)  == padded[z + 1][y + 2][x + 1]
Up(padded, z, y, x)    == padded[z + 1][y + 1][x]
Down(padded, z, y, x)  == padded[z + 1][y + 1][x + 2]

Neighbours(padded, z, y, x) ==
    << North(padded, z, y, x), South(padded, z, y, x), West(padded, z, y, x),
       East(padded, z, y, x), Up(padded, z, y, x), Down(padded, z, y, x) >>

\* cp.exp(-y) for y >= 0: 1 / (1 + y + y^2/2 + y^3/6 + y^4/24), and 0 from
\* y = 6 on, where exp(-y) < 0.0025.
ExpNeg(y) ==
    IF y >= 6 * Scale THEN 0
    ELSE LET y2 == FxMul(y, y)
             y3 == FxMul(y2, y)
             y4 == FxMul(y3, y)
         IN  FxDiv(Scale, Scale + y + RoundDiv(y2, 2) + RoundDiv(y3, 6) + RoundDiv(y4, 24))

\* mutant: the coefficient grows with the gradient, 1 + (grad / K)^2
CoefficientGrowing(grad, k, dtype) ==
    LET q == FxDiv(grad, k)
    IN  Scale + FxMul(q, q)
\* lines 259-274: the coefficient of one direction from its gradient magnitude
Coefficient(grad, k, dtype) ==
    LET q  == FxDiv(grad, k)
        q2 == FxMul(q, q)
    IN  IF dtype = 1 THEN ExpNeg(q2) ELSE FxDiv(Scale, Scale + q2)

\* mutant: the flux of a direction taken from the neighbour's value instead of
\* its difference to the centre
DivergenceOfValues(padded, center, k, dtype, z, y, x) ==
    LET nb == Neighbours(padded, z, y, x)
        c  == center[z][y][x]
        F(i) == FxMul(Coefficient(Abs(nb[i] - c), k, dtype), nb[i])
    IN  F(1) + F(2) + F(3) + F(4) + F(5) + F(6)

\* lines 250-284 at one voxel
Divergence(padded, center, k, dtype, z, y, x) ==
    LET nb == Neighbours(padded, z, y, x)
        c  == center[z][y][x]
        F(i) == FxMul(Coefficient(Abs(nb[i] - c), k, dtype), nb[i] - c)
    IN  F(1) + F(2) + F(3) + F(4) + F(5) + F(6)

\* the right-hand side of line 287: center + lambda_param * divergence
UpdateField(center, k, lam, dtype) ==
    LET padded == PadEdge(center)
    IN  [z \in DOMAIN center |-> [y \in DOMAIN center[z] |-> [x \in DOMAIN center[z][y] |->
            center[z][y][x] + FxMul(lam, Divergence(padded, center, k, dtype, z, y, x))]]]

\* the field after n passes of the loop body, lines 236-290
RECURSIVE Iterate(_, _, _, _, _)
Iterate(field, n, k, lam, dtype) ==
    IF n <= 0 THEN field
    ELSE Iterate(UpdateField(field, k, lam, dtype), n - 1, k, lam, dtype)

\* the whole call, lines 226-299
PeronaMalik(vol, has_cupy, n, k, lam, dtype) ==
    IF ~has_cupy THEN vol ELSE Iterate(vol, n, k, lam, dtype)

(***************************************************************************)
(* compute_chunk_minmax, lines 302-366                                     *)
(***************************************************************************)
\* mutant: one more chunk than d \div cs, also when d is a multiple of cs
PaddedDimOneMore(d, cs) == (d \div cs + 1) * cs
\* lines 317-319: round up to the next multiple of chunk_size
PaddedDim(d, cs) == ((d + cs - 1) \div cs) * cs

\* lines 322-325
PaddedVolume(vol, cs) ==
    LET depth  == Depth(vol)
        height == Height(vol)
        width  == Width(vol)
        pd == PaddedDim(depth, cs)
        ph == PaddedDim(height, cs)
        pw == PaddedDim(width, cs)
    IN  IF pd > depth \/ ph > height \/ pw > width
        THEN [z \in 0..(pd - 1) |-> [y \in 0..(ph - 1) |-> [x \in 0..(pw - 1) |->
                IF z < depth /\ y < height /\ x < width THEN vol[z][y][x] ELSE 0]]]
        ELSE vol

\* lines 347-355: the index ranges of the cube of cell (iz, iy, ix)
ChunkRange(i, cs) == (i * cs)..(i * cs + cs - 1)

\* line 355: the values in the slice of the padded volume
ChunkValues(pv, cs, iz, iy, ix) ==
    { pv[z][y][x] : z \in ChunkRange(iz, cs), y \in ChunkRange(iy, cs), x \in ChunkRange(ix, cs) }

ComputeChunkMinmax(vol, cs) ==
    LET pv == PaddedVolume(vol, cs)
        num_chunks_z == PaddedDim(Depth(vol), cs) \div cs
        num_chunks_y == PaddedDim(Height(vol), cs) \div cs
        num_chunks_x == PaddedDim(Width(vol), cs) \div cs
    IN  [iz \in 0..(num_chunks_z - 1) |-> [iy \in 0..(num_chunks_y - 1) |->
            [ix \in 0..(num_chunks_x - 1) |->
                LET chunk == ChunkValues(pv, cs, iz, iy, ix)
                IN  << SetMin(chunk), SetMax(chunk) >>]]]

(***************************************************************************)
(* Inputs                                                                  *)
(***************************************************************************)
\* a volume whose voxel value is its flat linear (z, y, x) row-major index
IndexVolume(s) ==
    Array3(s[1], s[2], s[3], LAMBDA z, y, x : ((z * s[2] + y) * s[3] + x) * Scale)

\* a volume of calibrated values that are all below zero (air to fat)
HuVolume(s) ==
    Array3(s[1], s[2], s[3], LAMBDA z, y, x : (((z + 2 * y + 3 * x) % 3) * 100 - 1000) * Scale)

ConstantVolume(s, v) == Array3(s[1], s[2], s[3], LAMBDA z, y, x : v * Scale)

\* a volume with one step edge across it
StepVolume(s) ==
    Array3(s[1], s[2], s[3], LAMBDA z, y, x : IF (z + y + x) % 2 = 0 THEN 0 ELSE 60 * Scale)

\* sizes around the chunk edge: one voxel, whole chunks, one voxel over
DepthSizes(cs) == {1} \cup { k * cs + e : k \in 1..MaxChunksDeep, e \in {0, 1} }
PlaneSizes(cs) == {1, cs, cs + 1}
GeometryShapes(cs) == DepthSizes(cs) \X PlaneSizes(cs) \X PlaneSizes(cs)
GeometryChunkSizes == { ChunkMultiple, 2 * ChunkMultiple }

SmallShapes == { <<1, 1, 1>>, <<1, 2, 2>>, <<3, 1, 2>>, <<2, 2, 2>> }
SmallVolumes ==
    UNION { { ConstantVolume(s, 100), ConstantVolume(s, 0 - 1000), StepVolume(s) } : s \in SmallShapes }

\* the end-to-end scenario of the design: 32x32x32 of 100.0, three iterations,
\* K = 50, lambda = 0.1, rational variant, chunk edge 32
ExampleVolume == ConstantVolume(<<32, 32, 32>>, 100)

EdgeThresholds == { 25 * Scale, 50 * Scale }
TimeSteps == { Fx(1, 10), Fx(1, 4) }

\* fields with a voxel that has all six neighbours (3 x 3 x 3) and with one
\* that has four (1 x 3 x 3): one voxel 1 HU above a flat background, and the
\* step pattern; time steps from 0 to the documented limit 0.25
StabilityShapes == { <<3, 3, 3>>, <<1, 3, 3>> }
SpikeVolume(s) ==
    Array3(s[1], s[2], s[3],
           LAMBDA z, y, x : IF <<z, y, x>> = <<s[1] \div 2, s[2] \div 2, s[3] \div 2>>
                            THEN 101 * Scale ELSE 100 * Scale)
StabilityVolumes == UNION { { SpikeVolume(s), StepVolume(s) } : s \in StabilityShapes }
StabilitySteps == { 0, Fx(1, 10), Fx(4, 25), Fx(1, 4) }

(***************************************************************************)
(* SpecCore: a caller runs the solver on a volume, then the reducer on the *)
(* solver's result (the data flow volume -> perona_malik_gpu ->            *)
(* compute_chunk_minmax of lines 434-440, with the arguments free).        *)
(***************************************************************************)
Unused ==
    /\ gpu = <<>> /\ vol_gpu = "" /\ output_gpu = "" /\ iteration = 0
    /\ update = <<>> /\ pending = {}
    /\ apply_smoothing = FALSE /\ anonymize = TRUE /\ input_dir = <<>>
    /\ global_range = <<>> /\ out_dir = <<>> /\ metadata = <<>>

CoreInit ==
    /\ pc = "solve"
    /\ result = <<>>
    /\ chunk_minmax = <<>>
    /\ Unused
    /\ \/ \* chunk geometry: the solver's degraded path hands the volume on
          /\ HAS_CUPY = FALSE
          /\ chunk_size \in GeometryChunkSizes
          /\ \E s \in GeometryShapes(chunk_size) : volume \in { IndexVolume(s), HuVolume(s) }
          /\ iterations = 5 /\ K = 50 * Scale /\ lambda_param = Fx(1, 10) /\ diffusion_type = 1
       \/ \* the solver on small fields
          /\ HAS_CUPY \in BOOLEAN
          /\ chunk_size = ChunkMultiple
          /\ volume \in SmallVolumes
          /\ iterations \in 0..MaxIterations
          /\ K \in EdgeThresholds
          /\ lambda_param \in TimeSteps
          /\ diffusion_type \in {1, 2}
       \/ \* the solver over the range of time steps
          /\ HAS_CUPY = TRUE
          /\ chunk_size = ChunkMultiple
          /\ volume \in StabilityVolumes
          /\ iterations \in 1..MaxIterations
          /\ K \in EdgeThresholds
          /\ lambda_param \in StabilitySteps
          /\ diffusion_type \in {1, 2}
       \/ \* the end-to-end scenario
          /\ HAS_CUPY = TRUE
          /\ chunk_size = 2 * ChunkMultiple
          /\ volume = ExampleVolume
          /\ iterations = 3 /\ K = 50 * Scale /\ lambda_param = Fx(1, 10) /\ diffusion_type = 2

CoreSolve ==
    /\ pc = "solve"
    /\ result' = PeronaMalik(volume, HAS_CUPY, iterations, K, lambda_param, diffusion_type)
    /\ pc' = "reduce"
    /\ UNCHANGED <<HAS_CUPY, volume, chunk_size, chunk_minmax, iterations, K,
                   lambda_param, diffusion_type, solverVars, driverVars>>

CoreReduce ==
    /\ pc = "reduce"
    /\ chunk_minmax' = ComputeChunkMinmax(result, chunk_size)
    /\ pc' = "done"
    /\ UNCHANGED <<HAS_CUPY, volume, chunk_size, result, iterations, K,
                   lambda_param, diffusion_type, solverVars, driverVars>>

CoreNext == CoreSolve \/ CoreReduce

SpecCore == CoreInit /\ [][CoreNext]_vars

(***************************************************************************)
(* Chunk reducer claims, checked under SpecCore                            *)
(***************************************************************************)
Cells(grid) ==
    { <<iz, iy, ix>> : iz \in DOMAIN grid, iy \in DOMAIN grid[0], ix \in DOMAIN grid[0][0] }

\* the part of a cube's index range along one axis that lies in the volume
InVolume(i, cs, dim) == ChunkRange(i, cs) \cap (0..(dim - 1))

\* the cube of the cell reaches past the volume: it holds padding voxels
HasPadding(vol, cs, c) ==
    \/ ChunkRange(c[1], cs) # InVolume(c[1], cs, Depth(vol))
    \/ ChunkRange(c[2], cs) # InVolume(c[2], cs, Height(vol))
    \/ ChunkRange(c[3], cs) # InVolume(c[3], cs, Width(vol))

\* the values of the volume's own voxels inside the cube of a cell
OwnValues(vol, cs, c) ==
    { vol[z][y][x] : z \in InVolume(c[1], cs, Depth(vol)),
                     y \in InVolume(c[2], cs, Height(vol)),
                     x \in InVolume(c[3], cs, Width(vol)) }

NaiveMinMax(vol, cs, c) == << SetMin(OwnValues(vol, cs, c)), SetMax(OwnValues(vol, cs, c)) >>

IsIndexVolume(vol) == vol = IndexVolume(Shape(vol))

\* C1 as stated: for the linear-index volume every cell, also one completed
\* by padding, stores the exact minimum and maximum of the indices of the
\* volume's voxels in its cube.
C1_ExactInEveryCell ==
    (pc = "done" /\ IsIndexVolume(result)) =>
        \A c \in Cells(chunk_minmax) :
            chunk_minmax[c[1]][c[2]][c[3]] = NaiveMinMax(result, chunk_size, c)

\* C1 amended: for the linear-index volume every cell stores the exact
\* maximum of the indices of its voxels; it stores their exact minimum when
\* its cube lies inside the volume, and 0 (the padding value) when the cube
\* reaches past the volume.
C1_ExactUpToPadding ==
    (pc = "done" /\ IsIndexVolume(result)) =>
        \A c \in Cells(chunk_minmax) :
            LET stored == chunk_minmax[c[1]][c[2]][c[3]]
                exact  == NaiveMinMax(result, chunk_size, c)
            IN  /\ stored[2] = exact[2]
                /\ stored[1] = IF HasPadding(result, chunk_size, c) THEN 0 ELSE exact[1]

\* C1 witness: a reduced linear-index volume with a padded cell whose own
\* voxels all have an index above zero, next to a cell without padding.
C1_Witness ==
    /\ pc = "done"
    /\ IsIndexVolume(result)
    /\ \E c \in Cells(chunk_minmax) :
          /\ HasPadding(result, chunk_size, c)
          /\ NaiveMinMax(result, chunk_size, c)[1] > 0
          /\ chunk_minmax[c[1]][c[2]][c[3]][1] = 0
    /\ \E c \in Cells(chunk_minmax) : ~HasPadding(result, chunk_size, c)

\* C3: the cubes partition the padded volume. Along each axis every index of
\* the volume lies in the range of exactly one cell, the cell index div C (a
\* cube is the product of its three ranges, so every voxel (z, y, x) lies in
\* exactly the cube of cell (z div C, y div C, x div C)); a cube holds
\* padding only when its cell is last along an axis whose dimension is not a
\* multiple of C, and then the stored pair is the extrema of its own voxels
\* and the padding value 0; every other cell stores the naive min/max scan
\* of the original voxels of its cube.
C3_Partition ==
    pc = "done" =>
        LET cs == chunk_size
            OneCell(dim, cellIdx) ==
                \A i \in 0..(dim - 1) : { j \in cellIdx : i \in ChunkRange(j, cs) } = { i \div cs }
            LastNotMultiple(i, cellIdx, dim) ==
                i = Cardinality(cellIdx) - 1 /\ dim % cs # 0
        IN  /\ OneCell(Depth(result), DOMAIN chunk_minmax)
            /\ OneCell(Height(result), DOMAIN chunk_minmax[0])
            /\ OneCell(Width(result), DOMAIN chunk_minmax[0][0])
            /\ \A c \in Cells(chunk_minmax) :
                  LET stored == chunk_minmax[c[1]][c[2]][c[3]]
                      own    == OwnValues(result, cs, c)
                  IN  IF HasPadding(result, cs, c)
                      THEN /\ \/ LastNotMultiple(c[1], DOMAIN chunk_minmax, Depth(result))
                              \/ LastNotMultiple(c[2], DOMAIN chunk_minmax[0], Height(result))
                              \/ LastNotMultiple(c[3], DOMAIN chunk_minmax[0][0], Width(result))
                           /\ stored = << SetMin(own \cup {0}), SetMax(own \cup {0}) >>
                      ELSE stored = NaiveMinMax(result, cs, c)

\* C3 witness: a reduced volume of values below zero with a cell that holds
\* padding (its stored maximum is the padding value) and a cell that does not.
C3_Witness ==
    /\ pc = "done"
    /\ result = HuVolume(Shape(result))
    /\ \E c \in Cells(chunk_minmax) :
          /\ HasPadding(result, chunk_size, c)
          /\ chunk_minmax[c[1]][c[2]][c[3]][2] = 0
    /\ \E c \in Cells(chunk_minmax) :
          /\ ~HasPadding(result, chunk_size, c)
          /\ chunk_minmax[c[1]][c[2]][c[3]][2] < 0

(***************************************************************************)
(* Solver claims checked under SpecCore                                    *)
(***************************************************************************)
\* C8: a volume whose voxels all hold the same constant comes back from
\* perona_malik_gpu equal to the input, voxel for voxel, for every iteration
\* count, every K > 0, every time step and both variants; and the 32x32x32
\* volume of 100 after three iterations reduces, with C = 32, to the single
\* cell (100, 100).
C8_ConstantFixedPoint ==
    /\ (pc \in {"reduce", "done"} /\ IsConstant(volume) /\ K > 0) => result = volume
    /\ (pc = "done" /\ volume = ExampleVolume /\ chunk_size = 32) =>
           chunk_minmax = [iz \in {0} |-> [iy \in {0} |-> [ix \in {0} |-> << 100 * Scale, 100 * Scale >>]]]

\* C8 witness: the end-to-end scenario has run on the accelerated path.
C8_Witness ==
    /\ pc = "done"
    /\ HAS_CUPY
    /\ volume = ExampleVolume
    /\ iterations = 3
    /\ diffusion_type = 2
    /\ Cells(chunk_minmax) = { <<0, 0, 0>> }

(***************************************************************************)
(* SpecDiffuse: one call of perona_malik_gpu, statement by statement.      *)
(* The right-hand side of line 287 is evaluated into a temporary from      *)
(* vol_gpu and its padded copy; the assignment output_gpu[:] = ... then    *)
(* stores the temporary voxel by voxel, in an order the device chooses.    *)
(***************************************************************************)
DiffuseShapes == { <<1, 1, 1>>, <<1, 2, 2>>, <<3, 1, 1>>, <<1, 3, 1>>, <<1, 1, 3>> }
DiffuseVolumes ==
    UNION { { ConstantVolume(s, 100), StepVolume(s) } : s \in DiffuseShapes }
\* arguments a caller may pass: the function checks none of them
DiffuseThresholds == { 0 - 50 * Scale, 25 * Scale, 50 * Scale }
DiffuseTypes == {1, 2, 3}

ZerosLike(a) == [z \in DOMAIN a |-> [y \in DOMAIN a[z] |-> [x \in DOMAIN a[z][y] |-> 0]]]

DiffuseInit ==
    /\ pc = "pm_entry"
    /\ HAS_CUPY \in BOOLEAN
    /\ volume \in DiffuseVolumes
    /\ iterations \in 0..MaxIterations
    /\ K \in DiffuseThresholds
    /\ lambda_param \in TimeSteps
    /\ diffusion_type \in DiffuseTypes
    /\ gpu = <<>> /\ vol_gpu = "" /\ output_gpu = "" /\ iteration = 0
    /\ update = <<>> /\ pending = {}
    /\ result = <<>>
    /\ chunk_size = ChunkMultiple /\ chunk_minmax = <<>>
    /\ apply_smoothing = FALSE /\ anonymize = TRUE /\ input_dir = <<>>
    /\ global_range = <<>> /\ out_dir = <<>> /\ metadata = <<>>

pmArgs == <<HAS_CUPY, volume, iterations, K, lambda_param, diffusion_type,
            chunk_size, chunk_minmax, driverVars>>

\* lines 226-228: without CuPy the argument is handed back
PmDegraded ==
    /\ pc = "pm_entry"
    /\ ~HAS_CUPY
    /\ result' = volume
    /\ pc' = "pm_returned"
    /\ UNCHANGED <<pmArgs, solverVars>>

\* lines 233-234: the volume (float32 since line 406, so the cast copies its
\* values) goes to a fresh device buffer, and a second one is zero-filled
PmUpload ==
    /\ pc = "pm_entry"
    /\ HAS_CUPY
    /\ gpu' = [a |-> volume, b |-> ZerosLike(volume)]
    /\ vol_gpu' = "a"
    /\ output_gpu' = "b"
    /\ iteration' = 0
    /\ pc' = "pm_loop"
    /\ UNCHANGED <<pmArgs, update, pending, result>>

\* lines 236-287, right-hand side: pad, shift, coefficients, divergence
PmCompute ==
    /\ pc = "pm_loop"
    /\ iteration < iterations
    /\ update' = UpdateField(gpu[vol_gpu], K, lambda_param, diffusion_type)
    /\ pending' = Coords(Shape(gpu[vol_gpu]))
    /\ pc' = "pm_store"
    /\ UNCHANGED <<pmArgs, gpu, vol_gpu, output_gpu, iteration, result>>

\* mutant: the update is stored over the buffer being read
StoreTargetInPlace == vol_gpu
\* line 287, left-hand side: the buffer the assignment stores into
StoreTarget == output_gpu

\* line 287: one voxel of output_gpu[:] = ...
PmStore ==
    /\ pc = "pm_store"
    /\ \E c \in pending :
          /\ gpu' = [gpu EXCEPT ![StoreTarget][c[1]][c[2]][c[3]] = update[c[1]][c[2]][c[3]]]
          /\ pending' = pending \ {c}
    /\ UNCHANGED <<pmArgs, pc, vol_gpu, output_gpu, iteration, update, result>>

\* line 290: the names trade buffers, and the loop counter advances
PmSwap ==
    /\ pc = "pm_store"
    /\ pending = {}
    /\ vol_gpu' = output_gpu
    /\ output_gpu' = vol_gpu
    /\ iteration' = iteration + 1
    /\ pc' = "pm_loop"
    /\ UNCHANGED <<pmArgs, gpu, update, pending, result>>

\* mutant: the buffer named output_gpu is copied back
ReturnedBufferOther == output_gpu
\* line 296: the buffer cp.asnumpy copies back
ReturnedBuffer == vol_gpu

\* lines 296-299, once range(iterations) is exhausted
PmReturn ==
    /\ pc = "pm_loop"
    /\ iteration >= iterations
    /\ result' = gpu[ReturnedBuffer]
    /\ pc' = "pm_returned"
    /\ UNCHANGED <<pmArgs, solverVars>>

DiffuseNext == PmDegraded \/ PmUpload \/ PmCompute \/ PmStore \/ PmSwap \/ PmReturn

SpecDiffuse == DiffuseInit /\ [][DiffuseNext]_vars

(***************************************************************************)
(* Solver claims checked under SpecDiffuse                                 *)
(***************************************************************************)
\* C6 as stated: with a non-positive K or a variant selector other than 1
\* and 2 the call is rejected before any iteration: no pass of the loop is
\* started or completed and no updated field exists.
C6_InvalidParametersRejected ==
    (K <= 0 \/ diffusion_type \notin {1, 2}) =>
        /\ pc \notin {"pm_store"}
        /\ iteration = 0
        /\ update = <<>>

\* C9: with iterations = 0 the call returns a field of the dimensions of the
\* input whose every voxel equals the input's, whatever the other arguments.
C9_ZeroIterationsIdentity ==
    (pc = "pm_returned" /\ iterations = 0) =>
        /\ Shape(result) = Shape(volume)
        /\ \A c \in Coords(Shape(volume)) :
              result[c[1]][c[2]][c[3]] = volume[c[1]][c[2]][c[3]]

\* C9 witness: a zero-iteration call on the accelerated path has returned a
\* field that is not all zero.
C9_Witness ==
    /\ pc = "pm_returned"
    /\ iterations = 0
    /\ HAS_CUPY
    /\ result # ZerosLike(volume)
    /\ output_gpu = "b"

\* C10: double buffering. While a pass runs the two names denote different
\* buffers and the buffer being read holds, unmodified, the field the
\* previous pass wrote (the input after `iteration` passes); the temporary is
\* the update of that field, and every voxel already stored in the other
\* buffer is the temporary's, whatever the order of the stores; after the
\* last pass the returned field is the one written last, for every count.
C10_DoubleBuffer ==
    /\ pc \in {"pm_loop", "pm_store"} =>
          /\ vol_gpu # output_gpu
          /\ gpu[vol_gpu] = Iterate(volume, iteration, K, lambda_param, diffusion_type)
    /\ pc = "pm_store" =>
          /\ update = UpdateField(gpu[vol_gpu], K, lambda_param, diffusion_type)
          /\ \A c \in Coords(Shape(volume)) \ pending :
                gpu[output_gpu][c[1]][c[2]][c[3]] = update[c[1]][c[2]][c[3]]
    /\ (pc = "pm_returned" /\ HAS_CUPY) =>
          /\ result = Iterate(volume, iterations, K, lambda_param, diffusion_type)
          /\ iteration = iterations
          /\ result = gpu[IF iterations % 2 = 0 THEN "a" ELSE "b"]

\* C10 witness: an odd number of passes over a field that diffusion changes
\* has returned, each pass having changed the field.
C10_Witness ==
    /\ pc = "pm_returned"
    /\ HAS_CUPY
    /\ iterations = 3
    /\ vol_gpu = "b"
    /\ result # volume
    /\ gpu["a"] # gpu["b"]

\* the coordinate offsets of north, south, west, east, up and down
Directions ==
    << <<0 - 1, 0, 0>>, <<1, 0, 0>>, <<0, 0 - 1, 0>>, <<0, 1, 0>>, <<0, 0, 0 - 1>>, <<0, 0, 1>> >>

Clamp(i, n) == IF i < 0 THEN 0 ELSE IF i > n - 1 THEN n - 1 ELSE i

ClampedNeighbour(field, c, d) ==
    field[Clamp(c[1] + d[1], Depth(field))][Clamp(c[2] + d[2], Height(field))]
         [Clamp(c[3] + d[3], Width(field))]

PointsOutside(field, c, d) ==
    \/ c[1] + d[1] \notin DOMAIN field
    \/ c[2] + d[2] \notin DOMAIN field[0]
    \/ c[3] + d[3] \notin DOMAIN field[0][0]

\* the divergence at c summed over the directions that stay inside the field
InsideDivergence(field, c, k, dtype) ==
    LET v == field[c[1]][c[2]][c[3]]
        T(i) == IF PointsOutside(field, c, Directions[i]) THEN 0
                ELSE LET nb == field[c[1] + Directions[i][1]][c[2] + Directions[i][2]]
                                    [c[3] + Directions[i][3]]
                     IN  FxMul(Coefficient(Abs(nb - v), k, dtype), nb - v)
    IN  T(1) + T(2) + T(3) + T(4) + T(5) + T(6)

\* C11: in a pass, the value each of the six shifted views of the padded
\* copy gives at a voxel is the field's value at the neighbour coordinate
\* clamped into range on that axis; a direction that points outside the
\* field therefore has difference zero, and the update of the voxel is its
\* value plus lambda times the flux of the directions that stay inside,
\* also when a dimension has size 1.
C11_HaloIsClamp ==
    pc = "pm_store" =>
        LET field  == gpu[vol_gpu]
            padded == PadEdge(field)
        IN  \A c \in Coords(Shape(field)) :
              LET nb == Neighbours(padded, c[1], c[2], c[3])
                  v  == field[c[1]][c[2]][c[3]]
              IN  /\ \A i \in 1..6 :
                        /\ nb[i] = ClampedNeighbour(field, c, Directions[i])
                        /\ PointsOutside(field, c, Directions[i]) => nb[i] - v = 0
                  /\ update[c[1]][c[2]][c[3]] =
                        v + FxMul(lambda_param, InsideDivergence(field, c, K, diffusion_type))

\* C11 witness: a later pass over a 1 x 2 x 2 field that is not constant has
\* computed an update that differs from the field it read
C11_Witness ==
    /\ pc = "pm_store"
    /\ Shape(volume) = <<1, 2, 2>>
    /\ iteration >= 1
    /\ ~IsConstant(gpu[vol_gpu])
    /\ update # gpu[vol_gpu]

(***************************************************************************)
(* The driver: read_dicom_files, sort_dicom_slices, extract_metadata,      *)
(* convert_dicom_series and main                                           *)
(***************************************************************************)
\* lines 383-386 and 552-558: the two tests on the chunk edge
\* mutant: the upper limit is not tested
ChunkSizeRejectedNoUpper(cs) == cs % ChunkMultiple # 0 \/ cs < MinChunkSize
ChunkSizeRejected(cs) ==
    cs % ChunkMultiple # 0 \/ cs < MinChunkSize \/ cs > MaxChunkSize

\* lines 62-82: the files of the directory that carry pixel data, in
\* directory order (rglob of a missing directory yields nothing)
ReadDicomFiles(dir) ==
    IF dir.exists THEN SelectSeq(dir.files, LAMBDA f : f.has_pixels) ELSE <<>>

\* lines 95-109: sorted() is stable; the datasets of the model all carry an
\* InstanceNumber, the first key of get_sort_key
RECURSIVE SortDicomSlices(_)
SortDicomSlices(fs) ==
    IF fs = <<>> THEN <<>>
    ELSE LET ds     == fs[Len(fs)]
             sorted == SortDicomSlices(SubSeq(fs, 1, Len(fs) - 1))
             k      == Cardinality({ i \in 1..Len(sorted) :
                                       sorted[i].InstanceNumber <= ds.InstanceNumber })
         IN  SubSeq(sorted, 1, k) \o <<ds>> \o SubSeq(sorted, k + 1, Len(sorted))

SortedFiles == SortDicomSlices(ReadDicomFiles(input_dir))

\* lines 401-422: every slice rescaled into the float32 volume
LoadVolume(sorted) ==
    LET first  == sorted[1].pixel_array
        height == Cardinality(DOMAIN first)
        width  == Cardinality(DOMAIN first[0])
    IN  [z \in 0..(Len(sorted) - 1) |-> [y \in 0..(height - 1) |-> [x \in 0..(width - 1) |->
            FxMul(sorted[z + 1].pixel_array[y][x] * Scale, sorted[z + 1].RescaleSlope)
                + sorted[z + 1].RescaleIntercept]]]

AllValues(vol) ==
    { vol[z][y][x] : z \in DOMAIN vol, y \in DOMAIN vol[0], x \in DOMAIN vol[0][0] }

\* lines 407-420
GlobalRange(vol) == << SetMin(AllValues(vol)), SetMax(AllValues(vol)) >>

\* astype(np.float16), line 444: a value n / Scale becomes <<m, e>>, the
\* nearest m * 2^e with an 11-bit significand m (ties to even); exponents
\* below -24 do not exist (subnormals), magnitudes from 65520 on become
\* infinity, written <<sign, 16>>.
ToFloat16(n) ==
    LET a    == Abs(n)
        sign == IF n < 0 THEN 0 - 1 ELSE 1
        \* floor(log2(a / Scale)), kept within -15..16
        E    == IF a >= Scale
                THEN SetMax({ e \in 0..16 : (2 ^ e) * Scale <= a \/ e = 0 })
                ELSE SetMax({ e \in (0 - 15)..(0 - 1) : Scale <= a * (2 ^ (0 - e)) \/ e = 0 - 15 })
        En   == IF E < 0 - 14 THEN 0 - 14 ELSE E
        u    == En - 10
        m    == IF u <= 0 THEN RoundDiv(a * (2 ^ (0 - u)), Scale)
                ELSE RoundDiv(a, Scale * (2 ^ u))
        mm   == IF m = 2048 THEN 1024 ELSE m
        uu   == IF m = 2048 THEN u + 1 ELSE u
    IN  IF a = 0 THEN <<0, 0>>
        ELSE IF E >= 16 \/ uu + 10 >= 16 THEN <<sign, 16>>
        ELSE << sign * mm, uu >>

\* volume_f16[i], lines 444-448
QuantizedSlice(vol, i) ==
    [y \in DOMAIN vol[i] |-> [x \in DOMAIN vol[i][y] |-> ToFloat16(vol[i][y][x])]]

Digit(d) == <<"0", "1", "2", "3", "4", "5", "6", "7", "8", "9">>[d + 1]

\* f"slice_{i:04d}.raw", line 447, for i < 10000
SliceName(i) ==
    "slice_" \o Digit((i \div 1000) % 10) \o Digit((i \div 100) % 10)
             \o Digit((i \div 10) % 10) \o Digit(i % 10) \o ".raw"

\* lines 30-49: the first 16 hex digits of a SHA256 in upper case, kept
\* symbolic
AnonymizeIdentifier(identifier) ==
    IF identifier = "" THEN "UNKNOWN"
    ELSE "UPPER(SHA256(medical_volume_renderer:" \o identifier \o ")[:16])"

\* lines 113-208. The study, series, spacing and display tags copied from
\* the first dataset by safe_get are left out: nothing else reads them.
ExtractMetadata(sorted, range, anon) ==
    LET first == sorted[1]
    IN  [ numSlices     |-> Len(sorted),
          width         |-> Cardinality(DOMAIN first.pixel_array[0]),
          height        |-> Cardinality(DOMAIN first.pixel_array),
          format        |-> "float16",
          bytesPerVoxel |-> 2,
          anonymized    |-> anon,
          patientName   |-> IF anon THEN "ANON_" \o AnonymizeIdentifier(first.PatientName)
                            ELSE first.PatientName,
          patientID     |-> IF anon THEN "ID_" \o AnonymizeIdentifier(first.PatientID)
                            ELSE first.PatientID,
          rescaleSlope     |-> first.RescaleSlope,
          rescaleIntercept |-> first.RescaleIntercept,
          huMin         |-> range[1],
          huMax         |-> range[2] ]

\* mutant: the X count read from axis 0 of the grid
ChunkInfoAxesSwapped(cs, grid) ==
    [ chunkSize   |-> cs,
      numChunksX  |-> Depth(grid),
      numChunksY  |-> Height(grid),
      numChunksZ  |-> Width(grid),
      totalChunks |-> Depth(grid) * Height(grid) * Width(grid) ]
\* lines 464-468
ChunkInfo(cs, grid) ==
    [ chunkSize   |-> cs,
      numChunksX  |-> Width(grid),
      numChunksY  |-> Height(grid),
      numChunksZ  |-> Depth(grid),
      totalChunks |-> Depth(grid) * Height(grid) * Width(grid) ]

\* lines 461-468: the dict written to metadata.json
ConvertMetadata(sorted, range, anon, cs, grid) ==
    ExtractMetadata(sorted, range, anon) @@ ChunkInfo(cs, grid)

\* chunk_minmax.astype(np.float32).tofile, line 456: the pairs in row-major
\* (z, y, x) order, min before max
FlatChunks(grid) ==
    [ i \in 0..(2 * Depth(grid) * Height(grid) * Width(grid) - 1) |->
        LET cell == i \div 2
            iz   == cell \div (Height(grid) * Width(grid))
            iy   == (cell \div Width(grid)) % Height(grid)
            ix   == cell % Width(grid)
        IN  grid[iz][iy][ix][(i % 2) + 1] ]

\* open(path, 'wb') / open(path, 'w'), lines 448, 455, 473
WriteFile(files, name, content) ==
    [ n \in (DOMAIN files) \cup {name} |-> IF n = name THEN content ELSE files[n] ]

(***************************************************************************)
(* Input directories                                                       *)
(***************************************************************************)
Dataset(number, pixels, slope, intercept, name, id) ==
    [ has_pixels |-> TRUE, InstanceNumber |-> number, pixel_array |-> pixels,
      RescaleSlope |-> slope, RescaleIntercept |-> intercept,
      PatientName |-> name, PatientID |-> id ]

\* a file dcmread(force=True) opens but that has no pixel_array (line 75)
Junk ==
    [ has_pixels |-> FALSE, InstanceNumber |-> 0, pixel_array |-> <<>>,
      RescaleSlope |-> Scale, RescaleIntercept |-> 0,
      PatientName |-> "", PatientID |-> "" ]

IndexPixels(z, h, w) ==
    [y \in 0..(h - 1) |-> [x \in 0..(w - 1) |-> ((z * h + y) * w + x) % 4096]]

ConstantPixels(h, w, v) == [y \in 0..(h - 1) |-> [x \in 0..(w - 1) |-> v]]

\* s[1] slices of s[2] rows by s[3] columns, listed in reverse acquisition
\* order, stored values 0..4095 with the usual CT rescale (1.0, -1024)
IndexSeries(s) ==
    [ i \in 1..s[1] |->
        Dataset(s[1] + 1 - i, IndexPixels(s[1] - i, s[2], s[3]),
                Scale, (0 - 1024) * Scale, "DOE^JOHN", "12345") ]

\* every voxel 100 HU
ConstantSeries(s) ==
    [ i \in 1..s[1] |->
        Dataset(i, ConstantPixels(s[2], s[3], 1124), Scale, (0 - 1024) * Scale, "", "") ]

\* two slices of one row, an edge of 60 between the columns, a stray file
\* between them
SmallSeries ==
    << Dataset(2, [y \in {0} |-> [x \in {0, 1} |-> IF x = 0 THEN 0 ELSE 120]],
               Fx(1, 2), 0, "DOE^JANE", "777"),
       Junk,
       Dataset(1, [y \in {0} |-> [x \in {0, 1} |-> IF x = 0 THEN 120 ELSE 0]],
               Fx(1, 2), 0, "DOE^JANE", "777") >>

MissingDir == [ exists |-> FALSE, files |-> <<>> ]
Dir(files) == [ exists |-> TRUE, files |-> files ]

SmallDirs ==
    { MissingDir, Dir(<<>>), Dir(<<Junk>>), Dir(SmallSeries),
      Dir(ConstantSeries(<<2, 2, 2>>)) }

\* chunk edges around the accepted range, one multiple beyond on each side
ChunkSweep == (0 - ChunkMultiple)..(MaxChunkSize + ChunkMultiple)

SeriesShapes(cs) ==
    { <<1, cs + 1, cs>>, <<cs + 1, 1, 2 * cs + 1>>, <<2, cs, cs + 1>>, <<cs, 2, 1>> }

ExampleSeries == IndexSeries(<<48, 48, 48>>)

(***************************************************************************)
(* Specification of convert_dicom_series and main                          *)
(***************************************************************************)
SolverIdle ==
    /\ gpu = <<>> /\ vol_gpu = "" /\ output_gpu = "" /\ iteration = 0
    /\ update = <<>> /\ pending = {} /\ result = <<>>

Init ==
    /\ SolverIdle
    /\ volume = <<>> /\ chunk_minmax = <<>> /\ global_range = <<>> /\ metadata = <<>>
    /\ out_dir = [ exists |-> FALSE, files |-> <<>> ]
    \* line 435: the arguments convert_dicom_series passes to the solver
    /\ K = 50 * Scale /\ lambda_param = Fx(1, 10) /\ diffusion_type = 2
    /\ \/ /\ pc \in {"main", "convert"}
          /\ chunk_size \in {0, 16, 24, 32}
          /\ HAS_CUPY \in BOOLEAN /\ apply_smoothing \in BOOLEAN
          /\ iterations \in {0, MaxIterations}
          /\ anonymize \in BOOLEAN
          /\ input_dir \in SmallDirs
       \/ /\ pc \in {"main", "convert"}
          /\ chunk_size \in ChunkSweep
          /\ HAS_CUPY = TRUE /\ apply_smoothing = TRUE
          /\ iterations = MaxIterations
          /\ anonymize = TRUE
          /\ input_dir = Dir(SmallSeries)
       \/ /\ pc = "convert"
          /\ chunk_size = ChunkMultiple
          /\ HAS_CUPY \in BOOLEAN /\ apply_smoothing = FALSE
          /\ iterations = MaxIterations
          /\ anonymize = TRUE
          /\ \E s \in SeriesShapes(chunk_size) : input_dir = Dir(IndexSeries(s))
       \/ /\ pc = "convert"
          /\ chunk_size = 16
          /\ HAS_CUPY = FALSE /\ apply_smoothing = FALSE
          /\ iterations = MaxIterations
          /\ anonymize = TRUE
          /\ input_dir = Dir(ExampleSeries)

inputVars == <<HAS_CUPY, chunk_size, iterations, K, lambda_param, diffusion_type,
               apply_smoothing, anonymize, input_dir>>

\* lines 551-558
MainValidate ==
    /\ pc = "main"
    /\ pc' = IF ChunkSizeRejected(chunk_size) THEN "exit1" ELSE "main_input"
    /\ UNCHANGED <<inputVars, solverVars, result, volume, chunk_minmax,
                   global_range, out_dir, metadata>>

\* lines 560-567
MainInput ==
    /\ pc = "main_input"
    /\ pc' = IF input_dir.exists THEN "main_confirm" ELSE "exit1"
    /\ UNCHANGED <<inputVars, solverVars, result, volume, chunk_minmax,
                   global_range, out_dir, metadata>>

\* lines 569-579 and the call at 592: the prompt is shown only for
\* --no-anonymize, and only the answer "yes" goes on
MainConfirm ==
    /\ pc = "main_confirm"
    /\ \E response \in {"yes", "no"} :
          pc' = IF anonymize \/ response = "yes" THEN "convert" ELSE "exit0"
    /\ UNCHANGED <<inputVars, solverVars, result, volume, chunk_minmax,
                   global_range, out_dir, metadata>>

\* lines 383-386
ConvertValidate ==
    /\ pc = "convert"
    /\ pc' = IF ChunkSizeRejected(chunk_size) THEN "config_error" ELSE "mkdir"
    /\ UNCHANGED <<inputVars, solverVars, result, volume, chunk_minmax,
                   global_range, out_dir, metadata>>

\* line 389
MkDir ==
    /\ pc = "mkdir"
    /\ out_dir' = [out_dir EXCEPT !.exists = TRUE]
    /\ pc' = "read"
    /\ UNCHANGED <<inputVars, solverVars, result, volume, chunk_minmax,
                   global_range, metadata>>

\* lines 392-398: with no slice found the error is printed and the function
\* returns
ReadAndSort ==
    /\ pc = "read"
    /\ pc' = IF ReadDicomFiles(input_dir) = <<>> THEN "no_input" ELSE "load"
    /\ UNCHANGED <<inputVars, solverVars, result, volume, chunk_minmax,
                   global_range, out_dir, metadata>>

\* lines 401-427
Load ==
    /\ pc = "load"
    /\ volume' = LoadVolume(SortedFiles)
    /\ global_range' = GlobalRange(volume')
    /\ pc' = "smooth"
    /\ UNCHANGED <<inputVars, solverVars, result, chunk_minmax, out_dir, metadata>>

\* lines 433-437: the solver runs only when it was asked for and the device
\* is there; otherwise the volume goes on as loaded (line 437 prints a
\* warning on the console, which is not part of the state)
Smooth ==
    /\ pc = "smooth"
    /\ volume' = IF apply_smoothing /\ HAS_CUPY
                 THEN PeronaMalik(volume, HAS_CUPY, iterations, K, lambda_param,
                                  diffusion_type)
                 ELSE volume
    /\ pc' = "reduce"
    /\ UNCHANGED <<inputVars, solverVars, result, chunk_minmax, global_range,
                   out_dir, metadata>>

\* line 440
Reduce ==
    /\ pc = "reduce"
    /\ chunk_size <= MaxReduceEdge
    /\ chunk_minmax' = ComputeChunkMinmax(volume, chunk_size)
    /\ pc' = "save"
    /\ UNCHANGED <<inputVars, solverVars, result, volume, global_range,
                   out_dir, metadata>>

\* lines 446-448, one turn of the loop: the slice files written so far are
\* the only files of the directory
WriteSlice ==
    /\ pc = "save"
    /\ LET i == Cardinality(DOMAIN out_dir.files)
       IN  /\ out_dir' = [out_dir EXCEPT
                  !.files = WriteFile(out_dir.files, SliceName(i), QuantizedSlice(volume, i))]
           /\ pc' = IF i + 1 = Depth(volume) THEN "save_chunks" ELSE "save"
    /\ UNCHANGED <<inputVars, solverVars, result, volume, chunk_minmax,
                   global_range, metadata>>

\* lines 454-456
WriteChunks ==
    /\ pc = "save_chunks"
    /\ out_dir' = [out_dir EXCEPT
           !.files = WriteFile(out_dir.files, "chunk_minmax.bin", FlatChunks(chunk_minmax))]
    /\ pc' = "save_metadata"
    /\ UNCHANGED <<inputVars, solverVars, result, volume, chunk_minmax,
                   global_range, metadata>>

\* lines 461-474
WriteMetadata ==
    /\ pc = "save_metadata"
    /\ metadata' = ConvertMetadata(SortedFiles, global_range, anonymize,
                                   chunk_size, chunk_minmax)
    /\ out_dir' = [out_dir EXCEPT
           !.files = WriteFile(out_dir.files, "metadata.json", metadata')]
    /\ pc' = "done"
    /\ UNCHANGED <<inputVars, solverVars, result, volume, chunk_minmax, global_range>>

\* a step after the validation raises (the directory cannot be created, a
\* file cannot be read or written, the device runs out of memory): nothing
\* in convert_dicom_series catches it, and main (lines 597-601) prints the
\* traceback and exits with status 1
Fail ==
    /\ pc \in {"mkdir", "read", "load", "smooth", "reduce", "save", "save_chunks",
               "save_metadata"}
    /\ pc' = "failed"
    /\ UNCHANGED <<inputVars, solverVars, result, volume, chunk_minmax,
                   global_range, out_dir, metadata>>

Next ==
    \/ MainValidate \/ MainInput \/ MainConfirm
    \/ ConvertValidate \/ MkDir \/ ReadAndSort \/ Load \/ Smooth \/ Reduce
    \/ WriteSlice \/ WriteChunks \/ WriteMetadata \/ Fail

Spec == Init /\ [][Next]_vars

(***************************************************************************)
(* Properties of the driver                                                *)
(***************************************************************************)
CeilDiv(n, d) == IF n % d = 0 THEN n \div d ELSE n \div d + 1

\* C2: once the reduction has run, the chunk grid has ceil(D / C) by
\* ceil(H / C) by ceil(W / C) cells for a volume of D slices, H rows and W
\* columns and chunk edge C; the metadata written by the run carries
\* numChunksX = ceil(W / C), numChunksY = ceil(H / C), numChunksZ = ceil(D / C)
\* and totalChunks, their product.
C2_GridShape ==
    /\ DOMAIN chunk_minmax # {} =>
          Shape(chunk_minmax) = << CeilDiv(Depth(volume), chunk_size),
                                   CeilDiv(Height(volume), chunk_size),
                                   CeilDiv(Width(volume), chunk_size) >>
    /\ DOMAIN metadata # {} =>
          /\ metadata.numChunksX = CeilDiv(Width(volume), chunk_size)
          /\ metadata.numChunksY = CeilDiv(Height(volume), chunk_size)
          /\ metadata.numChunksZ = CeilDiv(Depth(volume), chunk_size)
          /\ metadata.totalChunks = CeilDiv(Width(volume), chunk_size)
                                      * CeilDiv(Height(volume), chunk_size)
                                      * CeilDiv(Depth(volume), chunk_size)

\* the 48 x 48 x 48 series converted with chunk edge 16: 3 x 3 x 3 = 27 cells
C2_Witness ==
    /\ pc = "done"
    /\ Shape(volume) = <<48, 48, 48>> /\ chunk_size = 16
    /\ Shape(chunk_minmax) = <<3, 3, 3>>
    /\ metadata.numChunksX = 3 /\ metadata.numChunksY = 3 /\ metadata.numChunksZ = 3
    /\ metadata.totalChunks = 27

AcceptedEdges == { 16 * k : k \in 1..16 }

\* C4: a chunk edge that is zero, negative, not a multiple of 16 or outside
\* 16..256 stops the run at the validation, before the output directory is
\* created, any input is read or any file is written; each of 16, 32, ...,
\* 256 passes the validation.
C4_InvalidChunkRejectedFirst ==
    /\ chunk_size \notin AcceptedEdges =>
          /\ pc \in {"main", "exit1", "convert", "config_error"}
          /\ ~out_dir.exists /\ DOMAIN out_dir.files = {}
          /\ DOMAIN volume = {} /\ DOMAIN chunk_minmax = {} /\ DOMAIN metadata = {}
    /\ chunk_size \in AcceptedEdges =>
          /\ pc # "config_error"
          /\ pc = "exit1" => ~input_dir.exists

\* a non-positive edge rejected by convert_dicom_series with nothing touched
C4_Witness ==
    /\ pc = "config_error" /\ chunk_size <= 0
    /\ input_dir.exists /\ ~out_dir.exists

\* the metadata a run on the same input writes when the device is there
DiffusedRunMetadata ==
    LET loaded   == LoadVolume(SortedFiles)
        smoothed == PeronaMalik(loaded, TRUE, iterations, K, lambda_param, diffusion_type)
    IN  ConvertMetadata(SortedFiles, GlobalRange(loaded), anonymize, chunk_size,
                        ComputeChunkMinmax(smoothed, chunk_size))

\* C5: a finished run that asked for diffusion and had no device to run it
\* on tells its caller so: convert_dicom_series returns None on every path,
\* so the metadata it wrote differs from the metadata of the run in which
\* the field was diffused.
C5_DegradedRunReported ==
    (pc = "done" /\ apply_smoothing /\ ~HAS_CUPY /\ iterations > 0)
        => metadata # DiffusedRunMetadata

\* C7: a run that failed has left none of its files in the output directory.
C7_FailureLeavesNoFiles ==
    pc = "failed" => DOMAIN out_dir.files = {}

(***************************************************************************)
(* Stability of the iteration, checked under SpecCore                      *)
(***************************************************************************)
\* every value of `new` lies between the least and the greatest of `old`
WithinRange(new, old) ==
    LET lo == SetMin(AllValues(old))
        hi == SetMax(AllValues(old))
    IN  \A v \in AllValues(new) : lo <= v /\ v <= hi

\* each pass of the call that returned `result` kept within the range of the
\* field it read
PassesStayInRange ==
    \A n \in 1..iterations :
        WithinRange(IF n = iterations THEN result
                    ELSE Iterate(volume, n, K, lambda_param, diffusion_type),
                    Iterate(volume, n - 1, K, lambda_param, diffusion_type))

====
